---- MODULE Spec2Model ----
(***************************************************************************)
(* Synevola: the long-document summarization pipeline of                   *)
(* streamlit_appv6.py and the audio step of audio_processing.py.           *)
(*                                                                         *)
(*   encode_tokens / count_tokens   the tokenizer adapter                  *)
(*   chunk_text_by_tokens           the chunker (window loop and decoding) *)
(*   chat_or_complete               the chat/completion collaborator       *)
(*   generate_summary               the orchestrator                       *)
(*   process_audio                  transcription and diarization          *)
(*   the processing passes          transcription pass, summary pass       *)
(*   the page                       clean, regenerate, rename, display     *)
(*   the browser recorder           start, pause/resume, stop              *)
(*                                                                         *)
(* Specifications: SpecChunker (the chunker alone), Spec (one run of       *)
(* generate_summary), SpecChat (one call of chat_or_complete), SpecAudio   *)
(* (one call of process_audio), SpecPass (one click on a processing        *)
(* button), SpecRecorder (the browser recorder), SpecSlices (the chunker   *)
(* with overlaps around the cap of the word slicing), SpecStatus           *)
(* (generate_summary with and without a status container), SpecSession (a  *)
(* session of operations on the page).                                     *)
(*                                                                         *)
(* A text is a sequence of sub-word pieces [w |-> word, p |-> piece]; each *)
(* word is written with the pieces of Pieces.  The sub-word tokenizers     *)
(* (HuggingFace, tiktoken) produce one token per piece, text.split() one   *)
(* token per word.                                                         *)
(***************************************************************************)
EXTENDS Integers, Sequences, FiniteSets, TLC

\* ---------------------------------------------------------------- bounds
MaxWords == 3          \* words of the transcript: 0..MaxWords
MaxChunkSize == 3      \* chunk_size / max_tokens: -MaxNeg..MaxChunkSize
MaxOverlap == 3        \* overlap: -MaxNeg..MaxOverlap
MaxNeg == 1            \* how far below zero the integer parameters go
\* the window loop is cut after MaxIter windows (it need not terminate);
\* a terminating run over at most 2*MaxWords tokens emits fewer
MaxIter == 2 * MaxWords + 2
MaxClicks == 2         \* operations of the user in one session
MaxStarts == 3         \* clicks on Start of the browser recorder
MaxToggles == 2        \* clicks on Pause/Resume of the browser recorder
MaxTurns == 2          \* speaker turns the diarization pipeline yields: 0..MaxTurns

\* min(overlap, 50) of the word-slicing decode
DecodeOverlapCap == 50

Pieces == {1, 2}
NPieces == Cardinality(Pieces)

VARIABLES
    \* arguments of generate_summary / chunk_text_by_tokens
    text_for_llm, chunk_size, overlap, token_backend, mode_resume, api_mode_key,
    \* the tokenizer libraries of the process
    hf_tokenizer,      \* get_hf_tokenizer(model) returns a tokenizer (TRUE) or None
    hf_encode_ok,      \* tok.encode(text) returns (TRUE) or raises
    have_tiktoken,     \* import tiktoken / get_encoding works (TRUE) or raises
    \* chunk_text_by_tokens
    c_pc, ids, start, chunks, decoded,
    enc,               \* how the latest call of encode_tokens ended
    \* generate_summary
    gs_pc, total_tokens, i, partial_summaries, chunk_summaries, summary_text,
    gs_error, calls,
    requests,          \* the endpoint requests of the latest chat_or_complete
    status_container,  \* a status container is passed (TRUE) or None
    status_written,    \* the messages written to the status container
    first_run,         \* the calls and the outcome of the run made before
    \* chat_or_complete called on its own
    cc_pc, cc_mode, cc_chat, cc_compl, cc_result,
    \* process_audio
    pa_pc,
    pa_args,           \* the arguments and the environment of the call
    pa_result,         \* how the latest call of process_audio ended
    \* one run of the page script after a click on a processing button
    ui_pc,
    diarization_enabled, include_speakers,     \* the toggles
    run_summary_after,
    transcriptions, speaker_files, speaker_mapping,      \* st.session_state
    session_summary_text, session_chunk_summaries,       \* st.session_state
    ui_errors,         \* the messages st.error has shown
    console,           \* the lines print() wrote, which the page does not show
    failures,          \* the failures of the external steps of the run
    uncaught,          \* an exception left the page script in this run
    built,             \* the latest call of build_text_from_transcription
    clicks,            \* the operations the user has made so far
    operation,         \* the operation that started this run of the script
    before,            \* the session state when this run started
    summary_source,    \* the transcriptions the stored summary was made from
    \* the advanced browser recorder (the script of the recorder component)
    mediaRecorder, mediaStream, timerInterval, isRecording, isPaused,
    startBtn_disabled, pauseBtn_disabled, stopBtn_disabled,
    acquiring,         \* the startRecording calls waiting on getUserMedia
    started,           \* the startRecording calls made so far
    streams,           \* the media streams whose tracks are live
    recorder_state,    \* the state of the MediaRecorder of each call
    intervals,         \* the timer intervals that are set
    timers,            \* the intervals setInterval has handed out so far
    toggled            \* the togglePause calls made so far

inputs == <<text_for_llm, chunk_size, overlap, token_backend, mode_resume,
            api_mode_key, hf_tokenizer, hf_encode_ok, have_tiktoken>>
chunker == <<c_pc, ids, start, chunks, decoded, enc>>
summary == <<gs_pc, total_tokens, i, partial_summaries, chunk_summaries,
             summary_text, gs_error, calls, requests, status_container,
             status_written, first_run>>
client == <<cc_pc, cc_mode, cc_chat, cc_compl, cc_result>>
audio == <<pa_pc, pa_args, pa_result>>
toggles == <<diarization_enabled, include_speakers>>
session == <<transcriptions, speaker_files, speaker_mapping,
             session_summary_text, session_chunk_summaries>>
page == <<uncaught, built, clicks, operation, before, summary_source>>
ui == <<ui_pc, toggles, run_summary_after, session, ui_errors, console, failures,
        page>>
settings == <<chunk_size, overlap, token_backend, mode_resume, api_mode_key,
              hf_tokenizer, hf_encode_ok, have_tiktoken>>
recorder == <<mediaRecorder, mediaStream, timerInterval, isRecording, isPaused,
              startBtn_disabled, pauseBtn_disabled, stopBtn_disabled,
              acquiring, started, streams, recorder_state, intervals, timers,
              toggled>>
vars == <<inputs, chunker, summary, client, audio, ui, recorder>>

\* ------------------------------------------------------- Python helpers
Min(a, b) == IF a <= b THEN a ELSE b
Max(a, b) == IF a >= b THEN a ELSE b

\* one bound of a Python slice, negative indices counted from the end
SliceIndex(k, n) == IF k < 0 THEN Max(k + n, 0) ELSE Min(k, n)

\* s[a:b] of a Python list
PySlice(s, a, b) ==
    LET lo == SliceIndex(a, Len(s))
        hi == SliceIndex(b, Len(s))
    IN  IF hi <= lo THEN <<>> ELSE SubSeq(s, lo + 1, hi)

\* int(round(a / b)) for a >= 0, b > 0: Python 3 rounds halves to even
RoundDiv(a, b) ==
    LET q == a \div b
        r == a % b
    IN  IF 2 * r < b THEN q
        ELSE IF 2 * r > b THEN q + 1
        ELSE IF q % 2 = 0 THEN q ELSE q + 1

\* --------------------------------------------------------------- texts
\* the text made of the words ws, in order
JoinWords(ws) ==
    [k \in 1..(NPieces * Len(ws)) |->
        [w |-> ws[((k - 1) \div NPieces) + 1], p |-> ((k - 1) % NPieces) + 1]]

\* text.split(): the words of a text, in order
WordsOf(text) ==
    LET firsts == SelectSeq(text, LAMBDA x : x.p = 1)
    IN  [k \in 1..Len(firsts) |-> firsts[k].w]

Texts == {JoinWords([k \in 1..n |-> k]) : n \in 0..MaxWords}

\* ------------------------------------------------------ tokenizer adapter
\* tok.encode / enc.encode: one token per sub-word piece, ids of that backend
SubwordEncode(b, text) ==
    [k \in 1..Len(text) |-> [b |-> b, w |-> text[k].w, p |-> text[k].p]]

\* text.split() used as a token list: one word string per token
SplitEncode(text) ==
    LET ws == WordsOf(text)
    IN  [k \in 1..Len(ws) |-> [b |-> "split", w |-> ws[k], p |-> 0]]

\* how a call of encode_tokens ends: the sequence it returns, or raised; and
\* the backends it tried, in order
Encoded(tokens, tried) == [raised |-> FALSE, ids |-> tokens, tried |-> tried]

\* faulty variant: the failure of tiktoken is not caught
OnTiktokenFailure_Raise(text, tried) ==
    [raised |-> TRUE, ids |-> <<>>, tried |-> tried]

\* except Exception: return text.split()
OnTiktokenFailure(text, tried) == Encoded(SplitEncode(text), Append(tried, "split"))

\* the try block of tiktoken and its handler
TiktokenOrSplit(text, tried) ==
    IF have_tiktoken
    THEN Encoded(SubwordEncode("tiktoken", text), Append(tried, "tiktoken"))
    ELSE OnTiktokenFailure(text, Append(tried, "tiktoken"))

\* one call of encode_tokens
encode_call(text, backend) ==
    IF text = <<>> THEN Encoded(<<>>, <<>>)
    ELSE IF backend = "HuggingFace"
        THEN IF hf_tokenizer /\ hf_encode_ok
             THEN Encoded(SubwordEncode("HuggingFace", text), <<"HuggingFace">>)
             ELSE TiktokenOrSplit(text, <<"HuggingFace">>)
    ELSE TiktokenOrSplit(text, <<>>)

encode_tokens(text, backend) == encode_call(text, backend).ids

count_tokens(text, backend) == Len(encode_tokens(text, backend))

\* tok.decode(c) of the HuggingFace tokenizer: the pieces of its own ids, and
\* some unrelated piece for an id that another backend produced
HFDecode(c) ==
    [k \in 1..Len(c) |->
        IF c[k].b = "HuggingFace" THEN [w |-> c[k].w, p |-> c[k].p]
        ELSE [w |-> 0, p |-> 0]]

\* ---------------------------------------------------------------- chunker
\* faulty variant: the window end is not clamped to the number of tokens
WindowEnd_Unclamped(s, max_tokens, n) == s + max_tokens

\* end = min(start + max_tokens, n)
WindowEnd(s, max_tokens, n) == Min(s + max_tokens, n)

\* faulty variant: the next window starts where the previous one ended
NextStart_NoOverlap(end, ov) == end

\* start = end - overlap if end - overlap > 0 else end
NextStart(end, ov) == IF end - ov > 0 THEN end - ov ELSE end

RECURSIVE WindowBounds(_, _, _, _, _)
\* the bounds of the windows the loop emits over n tokens from start s on,
\* cut after `fuel` windows
WindowBounds(n, max_tokens, ov, s, fuel) ==
    IF s >= n \/ fuel = 0 THEN <<>>
    ELSE LET end == WindowEnd(s, max_tokens, n)
         IN  <<[start |-> s, end |-> end]>>
             \o (IF end >= n THEN <<>>
                 ELSE WindowBounds(n, max_tokens, ov, NextStart(end, ov), fuel - 1))

\* faulty variant: the ratio without its floor of one word per token
WordRatio_NoFloor(nwords, nids) == RoundDiv(nwords, nids)

\* ratio = max(1, int(round(len(words) / len(ids))))
WordRatio(nwords, nids) == Max(1, RoundDiv(nwords, nids))

RECURSIVE SliceWords(_, _, _, _, _)
\* the word-slicing loop of the non-HuggingFace decode
SliceWords(words, cs, ratio, ov, idx) ==
    IF cs = <<>> THEN <<>>
    ELSE LET take == Max(1, Len(Head(cs).toks) * ratio)
         IN  <<JoinWords(PySlice(words, idx, idx + take))>>
             \o SliceWords(words, Tail(cs), ratio, ov,
                           idx + take - Min(ov, DecodeOverlapCap))

\* the branch of the decoding: tok.decode of the HuggingFace tokenizer, or
\* the slices of text.split()
DecodeMethod(backend) ==
    IF backend = "HuggingFace" /\ hf_tokenizer THEN "HuggingFace" ELSE "split"

DecodeChunks(text, backend, cs, tokens, ov) ==
    IF DecodeMethod(backend) = "HuggingFace"
    THEN [k \in 1..Len(cs) |-> HFDecode(cs[k].toks)]
    ELSE SliceWords(WordsOf(text), cs, WordRatio(Len(WordsOf(text)), Len(tokens)), ov, 0)

\* ids = encode_tokens(...); if not ids: return []; start = 0
ChunkStart ==
    /\ c_pc = "encode"
    /\ enc' = encode_call(text_for_llm, token_backend)
    /\ ids' = enc'.ids
    /\ start' = 0
    /\ chunks' = <<>>
    /\ decoded' = <<>>
    /\ c_pc' = IF enc'.raised THEN "raised"
              ELSE IF ids' = <<>> THEN "return" ELSE "loop"
    /\ UNCHANGED <<recorder, inputs, client, audio, ui, summary>>

\* one iteration of `while start < n`
ChunkWindow ==
    /\ c_pc = "loop"
    /\ start < Len(ids)
    /\ Len(chunks) < MaxIter
    /\ LET end == WindowEnd(start, chunk_size, Len(ids))
       IN  /\ chunks' = Append(chunks, [start |-> start, end |-> end,
                                        toks |-> PySlice(ids, start, end)])
           /\ IF end >= Len(ids)
              THEN c_pc' = "decode" /\ start' = start
              ELSE c_pc' = "loop" /\ start' = NextStart(end, overlap)
    /\ UNCHANGED <<recorder, inputs, client, audio, ui, ids, decoded, enc, summary>>

\* the loop condition `start < n` is false
ChunkLoopExit ==
    /\ c_pc = "loop"
    /\ start >= Len(ids)
    /\ c_pc' = "decode"
    /\ UNCHANGED <<recorder, inputs, client, audio, ui, ids, start, chunks, decoded, enc, summary>>

\* the decoding of the windows, and the return
ChunkDecode ==
    /\ c_pc = "decode"
    /\ decoded' = DecodeChunks(text_for_llm, token_backend, chunks, ids, overlap)
    /\ c_pc' = "return"
    /\ UNCHANGED <<recorder, inputs, client, audio, ui, ids, start, chunks, enc, summary>>

ChunkNext == ChunkStart \/ ChunkWindow \/ ChunkLoopExit \/ ChunkDecode

\* ---------------------------------------------------------------- inputs
Modes == {"Resume direct (1 bloc)", "Resume par blocs + synthese"}
ApiModes == {"auto", "chat", "completions"}
Backends == {"HuggingFace", "tiktoken"}

EmptyStr == [reply |-> "", i |-> 0]
NoError == [cls |-> "", mentions |-> {}]

\* the tokenizer libraries, one representative per behaviour of encode/decode
InitTokenizers ==
    /\ token_backend \in Backends
    /\ hf_tokenizer \in BOOLEAN
    /\ hf_encode_ok \in BOOLEAN
    /\ have_tiktoken \in BOOLEAN
    /\ token_backend = "tiktoken" => hf_tokenizer /\ hf_encode_ok
    /\ ~hf_tokenizer => hf_encode_ok
    /\ (token_backend = "HuggingFace" /\ hf_tokenizer /\ hf_encode_ok) => have_tiktoken

InitArgs ==
    /\ text_for_llm \in Texts
    /\ chunk_size \in (0 - MaxNeg)..MaxChunkSize
    /\ overlap \in (0 - MaxNeg)..MaxOverlap
    /\ InitTokenizers

\* no run of generate_summary has been made before this one
NoRun == [made |-> FALSE, calls |-> <<>>, pc |-> "", summary_text |-> EmptyStr,
          chunk_summaries |-> <<>>, error |-> NoError]

InitLocals ==
    /\ ids = <<>>
    /\ enc = Encoded(<<>>, <<>>)
    /\ start = 0
    /\ chunks = <<>>
    /\ decoded = <<>>
    /\ total_tokens = 0
    /\ i = 0
    /\ partial_summaries = <<>>
    /\ chunk_summaries = <<>>
    /\ summary_text = EmptyStr
    /\ gs_error = NoError
    /\ status_container = TRUE
    /\ status_written = <<>>
    /\ first_run = NoRun
    /\ calls = <<>>
    /\ requests = <<>>

\* --------------------------------------------------------- process_audio
\* an element of the list process_audio returns: the transcript as a plain
\* string, or a tuple (start, end, speaker, text)
StrItem(t) == [kind |-> "str", start |-> 0, end |-> 0, spk |-> "", txt |-> t]
Segment(a, b, spk, t) == [kind |-> "tuple", start |-> a, end |-> b, spk |-> spk, txt |-> t]

\* return transcriptions, {}; printed: the lines print() wrote to the console;
\* failed: the failures met during the call
PaReturn(items, printed, failed) ==
    [raised |-> FALSE, error |-> NoError, transcriptions |-> items,
     speaker_files |-> {}, printed |-> printed, failed |-> failed]
PaRaise(e) ==
    [raised |-> TRUE, error |-> e, transcriptions |-> <<>>,
     speaker_files |-> {}, printed |-> <<>>, failed |-> e.mentions]

\* the branch of lines 70-75: the engine that transcribes
Engine(model_name, have_faster_whisper, have_whisper) ==
    IF model_name = "faster-whisper" /\ have_faster_whisper THEN "faster-whisper"
    ELSE IF have_whisper THEN "whisper"
    ELSE "none"

SpeakerLabel(k) == IF k % 2 = 0 THEN "SPEAKER_00" ELSE "SPEAKER_01"

\* _diarize_audio: hf_token is HF_TOKEN being set, pipeline is "error" when
\* loading or running the pipeline raises, turns is the number of speaker
\* turns it yields otherwise
DiarizeAudio(hf_token, pipeline, turns, transcription) ==
    IF ~hf_token
    THEN [raised |-> TRUE, segments |-> <<>>,
          error |-> [cls |-> "ValueError", mentions |-> {<<"diarization", "token">>}]]
    ELSE IF pipeline = "error"
    THEN [raised |-> TRUE, segments |-> <<>>,
          error |-> [cls |-> "Exception", mentions |-> {<<"diarization", "pipeline">>}]]
    ELSE [raised |-> FALSE, error |-> NoError,
          segments |-> IF turns = 0
                       THEN <<Segment(0, 0, "SPEAKER_00", transcription)>>
                       ELSE [k \in 1..turns |->
                               Segment(k - 1, k, SpeakerLabel(k - 1),
                                       IF k = 1 THEN transcription ELSE <<>>)]]

\* faulty variant: the failure of the diarization leaves process_audio
OnDiarizationError_Raise(transcription, e) == PaRaise(e)

\* except Exception as e: print(...); return [transcription], {}
OnDiarizationError(transcription, e) ==
    PaReturn(<<StrItem(transcription)>>, <<e.mentions>>, e.mentions)

\* a: audio_path existing, model_name, diarization_enabled, and what the
\* process offers: the libraries, HF_TOKEN, the outcome of the transcription
\* (its text) and of the diarization pipeline
process_audio(a) ==
    IF ~a.exists
    THEN PaRaise([cls |-> "FileNotFoundError", mentions |-> {<<"file", "missing">>}])
    ELSE IF Engine(a.model_name, a.have_faster_whisper, a.have_whisper) = "none"
    THEN PaRaise([cls |-> "RuntimeError", mentions |-> {<<"transcription", "no engine">>}])
    ELSE IF a.transcribe = "error"
    THEN PaRaise([cls |-> "Exception", mentions |-> {<<"transcription", "error">>}])
    ELSE IF a.diarization_enabled /\ a.have_pyannote
    THEN LET d == DiarizeAudio(a.hf_token, a.pipeline, a.turns, a.transcription)
         IN  IF d.raised THEN OnDiarizationError(a.transcription, d.error)
             ELSE PaReturn(d.segments, <<>>, {})
    ELSE PaReturn(<<StrItem(a.transcription)>>, <<>>, {})

\* the transcripts of the audio files
Transcripts == {JoinWords([k \in 1..n |-> k]) : n \in 0..(MaxWords - MaxTurns)}

AudioArgs ==
    [exists : BOOLEAN, model_name : {"small", "faster-whisper"},
     have_faster_whisper : BOOLEAN, have_whisper : BOOLEAN,
     transcribe : {"ok", "error"}, transcription : Transcripts,
     diarization_enabled : BOOLEAN, have_pyannote : BOOLEAN, hf_token : BOOLEAN,
     pipeline : {"ok", "error"}, turns : 0..MaxTurns]

NoAudioArgs ==
    [exists |-> FALSE, model_name |-> "small", have_faster_whisper |-> FALSE,
     have_whisper |-> FALSE, transcribe |-> "ok", transcription |-> <<>>,
     diarization_enabled |-> FALSE, have_pyannote |-> FALSE, hf_token |-> FALSE,
     pipeline |-> "ok", turns |-> 0]

\* process_audio is not being called on its own
AudioIdle ==
    /\ pa_pc = "idle"
    /\ pa_args = NoAudioArgs
    /\ pa_result = PaReturn(<<>>, <<>>, {})

\* one call of process_audio, from the call to its return or raise
PaCall ==
    /\ pa_pc = "call"
    /\ pa_result' = process_audio(pa_args)
    /\ pa_pc' = "returned"
    /\ UNCHANGED <<recorder, inputs, chunker, summary, client, ui, pa_args>>

\* ------------------------------------------------ chat/completion client
\* what an endpoint does with a request: a text, an empty text (no choices,
\* or an empty content), an HTTP error status, or any other failure
\* (connection refused, timeout, malformed body)
EndpointOutcomes == {"text", "empty", "http", "error"}

\* the exception a failed request raises; its message names the failure
EndpointError(ep, o) ==
    [cls |-> IF o = "http" THEN "HTTPError" ELSE "Exception", mentions |-> {<<ep, o>>}]

\* faulty variant: the first endpoint's failure is left out of the message
Rendered_Dropped(e) == {}

\* an f-string's rendering of last_error: the error's message, or "None"
Rendered(e) == IF e = NoError THEN {<<"chat", "None">>} ELSE e.mentions

Return(text, reqs) == [ok |-> TRUE, value |-> text, error |-> NoError, requests |-> reqs]
Raise(e, reqs) == [ok |-> FALSE, value |-> EmptyStr, error |-> e, requests |-> reqs]

\* after both blocks: if last_error: raise last_error; return ""
Fallthrough(last_error, reqs) ==
    IF last_error # NoError THEN Raise(last_error, reqs) ELSE Return(EmptyStr, reqs)

\* the request call_chat_completions posts: system and user prompt as two
\* messages
ChatRequest == [ep |-> "chat", prompt |-> "messages"]

\* the request call_completions posts with merged_prompt: one templated
\* prompt "### System: ... ### User: ... ### Assistant:"
CompletionsRequest == [ep |-> "completions", prompt |-> "merged"]

\* if mode in ("auto", "chat")
TriesChat(mode) == mode \in {"auto", "chat"}

\* faulty variant: the guard of the second block lets every mode in
TriesCompletions_Always(mode) == TRUE

\* faulty variant: auto mode does not fall back to the second block
TriesCompletions_OnlyMode(mode) == mode = "completions"

\* if mode in ("auto", "completions")
TriesCompletions(mode) == mode \in {"auto", "completions"}

\* co, po: the outcomes of the chat and of the completions request, should
\* they be made; reply[ep]: the text endpoint ep answers with when it serves
\* the request
chat_or_complete(mode, co, po, reply) ==
    LET tryChat == TriesChat(mode)
        tryCompl == TriesCompletions(mode)
        last_error == IF tryChat /\ co \in {"http", "error"}
                      THEN EndpointError("chat", co) ELSE NoError
        r1 == IF tryChat THEN <<ChatRequest>> ELSE <<>>
        r2 == r1 \o <<CompletionsRequest>>
    IN  IF tryChat /\ co = "text" THEN Return(reply["chat"], r1)
        ELSE IF tryChat /\ mode = "chat" /\ co = "http"
            THEN Raise([cls |-> "ValueError", mentions |-> last_error.mentions], r1)
        ELSE IF tryChat /\ mode = "chat" /\ co = "error" THEN Raise(last_error, r1)
        ELSE IF tryCompl
            THEN CASE po = "text" -> Return(reply["completions"], r2)
                   [] po = "empty" -> Fallthrough(last_error, r2)
                   [] po = "http" ->
                        Raise([cls |-> "ValueError",
                               mentions |-> Rendered(last_error)
                                            \cup {<<"completions", "http">>}], r2)
                   [] po = "error" ->
                        IF last_error # NoError
                        THEN Raise([cls |-> "ValueError",
                                    mentions |-> last_error.mentions
                                                 \cup {<<"completions", "error">>}], r2)
                        ELSE Raise(EndpointError("completions", "error"), r2)
        ELSE Fallthrough(last_error, r1)

\* ------------------------------------------------------- generate_summary
\* faulty variant: the direct strategy needs both conditions
UseDirectStrategy_Both(mode, total, size) ==
    mode = "Resume direct (1 bloc)" /\ total <= size

\* mode_resume.startswith("Résumé direct") or total_tokens <= chunk_size
UseDirectStrategy(mode, total, size) ==
    mode = "Resume direct (1 bloc)" \/ total <= size

\* faulty variant: the prompt embeds the text without its first piece
DirectPrompt_Truncated(text) ==
    [kind |-> "direct", i |-> 0, n |-> 0,
     text |-> IF text = <<>> THEN text ELSE Tail(text), joined |-> <<>>]

\* f"{user_prompt}\n\nTexte à résumer:\n```text\n{text_for_llm}\n```"
DirectPrompt(text) ==
    [kind |-> "direct", i |-> 0, n |-> 0, text |-> text, joined |-> <<>>]

\* f"{user_prompt}\n\nTu résumes le **bloc {i}/{len(chunks)}** ...{ch}..."
ChunkPrompt(k, n, ch) ==
    [kind |-> "chunk", i |-> k, n |-> n, text |-> ch, joined |-> <<>>]

\* faulty variant: the synthesis prompt drops the first partial summary
SynthPrompt_DropFirst(summaries) ==
    [kind |-> "synth", i |-> 0, n |-> 0, text |-> <<>>,
     joined |-> IF summaries = <<>> THEN summaries ELSE Tail(summaries)]

\* joined = "\n\n".join(chunk_summaries), embedded in synth_prompt
SynthPrompt(summaries) ==
    [kind |-> "synth", i |-> 0, n |-> 0, text |-> <<>>, joined |-> summaries]

\* partial_summaries.append(f"### Bloc {i}\n{smry}")
AppendPartial(ps, k, smry) == Append(ps, [bloc |-> k, smry |-> smry])

\* faulty variant: the loop stops one chunk early
MoreChunks_OffByOne(k, n) == k < n

\* for i, ch in enumerate(chunks, 1): another chunk is left
MoreChunks(k, n) == k <= n

\* faulty variant: a failed call is swallowed and the run goes on
PcAfterCall_Swallow(ok, next) == next

\* a chat_or_complete that raises ends generate_summary: nothing catches it
PcAfterCall(ok, next) == IF ok THEN next ELSE "raised"

\* if status_container: status_container.write(msg)
StatusWrite(container, written, msg) ==
    IF container THEN Append(written, msg) ELSE written

\* faulty variant: the statement that follows the write is inside the `if`
AfterStatusBlock_Inside(container, next) == IF container THEN next ELSE "done"

\* the statement that follows an `if status_container:` block runs whether
\* or not a container was passed
AfterStatusBlock(container, next) == next

\* the model server answers the k-th call of this run as it answered the
\* k-th call of the run made before, if there was one
SameOutcome(k, r) ==
    (first_run.made /\ k <= Len(first_run.calls)) =>
        /\ r.ok = first_run.calls[k].ok
        /\ r.value = first_run.calls[k].result
        /\ r.error = first_run.calls[k].error

\* the text the model server answers a prompt with, whichever endpoint
\* serves it
ServerReply(kind, idx) ==
    [ep \in {"chat", "completions"} |-> [reply |-> kind, i |-> idx]]

\* the record of one chat_or_complete invocation
CallRecord(prompt, r) ==
    [prompt |-> prompt, ok |-> r.ok, result |-> r.value, error |-> r.error]

\* total_tokens = count_tokens(...); the choice of the strategy
GsStart ==
    /\ gs_pc = "start"
    /\ enc' = encode_call(text_for_llm, token_backend)
    /\ total_tokens' = count_tokens(text_for_llm, token_backend)
    /\ chunk_summaries' = <<>>
    /\ summary_text' = EmptyStr
    /\ IF enc'.raised
       THEN gs_pc' = "raised" /\ c_pc' = c_pc
       ELSE IF UseDirectStrategy(mode_resume, total_tokens', chunk_size)
       THEN gs_pc' = "direct" /\ c_pc' = c_pc
       ELSE /\ gs_pc' = AfterStatusBlock(status_container, "chunking")
            /\ c_pc' = "encode"
    /\ status_written' =
          IF enc'.raised \/ UseDirectStrategy(mode_resume, total_tokens', chunk_size)
          THEN status_written
          ELSE StatusWrite(status_container, status_written, "Decoupage du texte en blocs...")
    /\ UNCHANGED <<recorder, inputs, client, audio, ui, ids, start, chunks, decoded, i, partial_summaries,
                   gs_error, calls, requests, status_container, first_run>>

\* the direct strategy: one call, then return summary_text, []
GsDirect ==
    /\ gs_pc = "direct"
    /\ \E co \in EndpointOutcomes, po \in EndpointOutcomes :
        LET prompt == DirectPrompt(text_for_llm)
            r == chat_or_complete(api_mode_key, co, po, ServerReply("direct", 0))
        IN  /\ SameOutcome(Len(calls) + 1, r)
            /\ calls' = Append(calls, CallRecord(prompt, r))
            /\ requests' = r.requests
            /\ summary_text' = r.value
            /\ gs_error' = r.error
            /\ gs_pc' = PcAfterCall(r.ok, "done")
    /\ status_written' = StatusWrite(status_container, status_written,
                                     "Generation du resume direct...")
    /\ UNCHANGED <<recorder, inputs, client, audio, ui, chunker, total_tokens, i, partial_summaries, chunk_summaries,
                   status_container, first_run>>

\* chunks = chunk_text_by_tokens(...) has returned; partial_summaries = []
GsChunked ==
    /\ gs_pc = "chunking"
    /\ c_pc = "return"
    /\ partial_summaries' = <<>>
    /\ i' = 1
    /\ gs_pc' = AfterStatusBlock(status_container, "loop")
    /\ status_written' = StatusWrite(status_container, status_written,
                                     <<Len(decoded), "blocs a resumer.">>)
    /\ UNCHANGED <<recorder, inputs, client, audio, ui, chunker, total_tokens, chunk_summaries, summary_text,
                   gs_error, calls, requests, status_container, first_run>>

\* one iteration of the loop over the chunks
GsChunkCall ==
    /\ gs_pc = "loop"
    /\ MoreChunks(i, Len(decoded))
    /\ \E co \in EndpointOutcomes, po \in EndpointOutcomes :
        LET prompt == ChunkPrompt(i, Len(decoded), decoded[i])
            r == chat_or_complete(api_mode_key, co, po, ServerReply("chunk", i))
        IN  /\ SameOutcome(Len(calls) + 1, r)
            /\ calls' = Append(calls, CallRecord(prompt, r))
            /\ requests' = r.requests
            /\ gs_error' = r.error
            /\ gs_pc' = PcAfterCall(r.ok, "loop")
            /\ IF r.ok
               THEN /\ partial_summaries' = AppendPartial(partial_summaries, i, r.value)
                    /\ i' = i + 1
               ELSE UNCHANGED <<partial_summaries, i>>
    /\ status_written' = StatusWrite(status_container, status_written,
                                     <<"Resume bloc", i, Len(decoded)>>)
    /\ UNCHANGED <<recorder, inputs, client, audio, ui, chunker, total_tokens, chunk_summaries, summary_text,
                   status_container, first_run>>

\* chunk_summaries = partial_summaries; the synthesis call; the return
GsSynthesis ==
    /\ gs_pc = "loop"
    /\ ~MoreChunks(i, Len(decoded))
    /\ chunk_summaries' = partial_summaries
    /\ \E co \in EndpointOutcomes, po \in EndpointOutcomes :
        LET prompt == SynthPrompt(chunk_summaries')
            r == chat_or_complete(api_mode_key, co, po, ServerReply("synth", 0))
        IN  /\ SameOutcome(Len(calls) + 1, r)
            /\ calls' = Append(calls, CallRecord(prompt, r))
            /\ requests' = r.requests
            /\ summary_text' = r.value
            /\ gs_error' = r.error
            /\ gs_pc' = PcAfterCall(r.ok, "done")
    /\ status_written' = StatusWrite(status_container, status_written,
                                     "Synthese finale en cours...")
    /\ UNCHANGED <<recorder, inputs, client, audio, ui, chunker, total_tokens, i, partial_summaries,
                   status_container, first_run>>

GsNext == GsStart \/ GsDirect \/ GsChunked \/ GsChunkCall \/ GsSynthesis

\* ------------------------------------------- the advanced browser recorder
\* the recorder of startRecording call k, before it is constructed
NoRecorder == [k \in 1..MaxStarts |-> "none"]

\* the script has been loaded and no button has been clicked
RecorderIdle ==
    /\ mediaRecorder = 0
    /\ mediaStream = 0
    /\ timerInterval = 0
    /\ isRecording = FALSE
    /\ isPaused = FALSE
    /\ startBtn_disabled = FALSE
    /\ pauseBtn_disabled = TRUE
    /\ stopBtn_disabled = TRUE
    /\ acquiring = {}
    /\ started = 0
    /\ streams = {}
    /\ recorder_state = NoRecorder
    /\ intervals = {}
    /\ timers = 0
    /\ toggled = 0

\* a click on Start: startRecording runs up to its await of getUserMedia
StartClick ==
    /\ ~startBtn_disabled
    /\ started < MaxStarts
    /\ started' = started + 1
    /\ acquiring' = acquiring \cup {started + 1}
    /\ UNCHANGED <<mediaRecorder, mediaStream, timerInterval, isRecording,
                   isPaused, startBtn_disabled, pauseBtn_disabled,
                   stopBtn_disabled, streams, recorder_state, intervals,
                   timers, toggled>>
    /\ UNCHANGED <<inputs, chunker, summary, client, audio, ui>>

\* getUserMedia resolves for call k: the rest of startRecording runs
StartResume(k) ==
    /\ k \in acquiring
    /\ acquiring' = acquiring \ {k}
    /\ mediaStream' = k
    /\ streams' = streams \cup {k}
    /\ mediaRecorder' = k
    /\ recorder_state' = [recorder_state EXCEPT ![k] = "recording"]
    /\ isRecording' = TRUE
    /\ isPaused' = FALSE
    /\ startBtn_disabled' = TRUE
    /\ pauseBtn_disabled' = FALSE
    /\ stopBtn_disabled' = FALSE
    /\ timers' = timers + 1
    /\ timerInterval' = timers + 1
    /\ intervals' = intervals \cup {timers + 1}
    /\ UNCHANGED <<started, toggled>>
    /\ UNCHANGED <<inputs, chunker, summary, client, audio, ui>>

\* getUserMedia rejects for call k: the catch block shows the error
StartRejected(k) ==
    /\ k \in acquiring
    /\ acquiring' = acquiring \ {k}
    /\ UNCHANGED <<mediaRecorder, mediaStream, timerInterval, isRecording,
                   isPaused, startBtn_disabled, pauseBtn_disabled,
                   stopBtn_disabled, started, streams, recorder_state,
                   intervals, timers, toggled>>
    /\ UNCHANGED <<inputs, chunker, summary, client, audio, ui>>

\* a click on Pause/Resume
TogglePause ==
    /\ ~pauseBtn_disabled
    /\ toggled < MaxToggles
    /\ mediaRecorder # 0
    /\ toggled' = toggled + 1
    /\ IF isPaused
          THEN /\ recorder_state' = [recorder_state EXCEPT ![mediaRecorder] = "recording"]
               /\ isPaused' = FALSE
               /\ timers' = timers + 1
               /\ timerInterval' = timers + 1
               /\ intervals' = intervals \cup {timers + 1}
          ELSE /\ recorder_state' = [recorder_state EXCEPT ![mediaRecorder] = "paused"]
               /\ isPaused' = TRUE
               /\ intervals' = intervals \ {timerInterval}
               /\ UNCHANGED <<timers, timerInterval>>
    /\ UNCHANGED <<mediaRecorder, mediaStream, isRecording, startBtn_disabled,
                   pauseBtn_disabled, stopBtn_disabled, acquiring, started,
                   streams>>
    /\ UNCHANGED <<inputs, chunker, summary, client, audio, ui>>

\* a click on Stop
StopClick ==
    /\ ~stopBtn_disabled
    /\ mediaRecorder # 0
    /\ isRecording' = FALSE
    /\ recorder_state' = [recorder_state EXCEPT ![mediaRecorder] = "inactive"]
    /\ streams' = streams \ {mediaStream}
    /\ intervals' = intervals \ {timerInterval}
    /\ startBtn_disabled' = FALSE
    /\ pauseBtn_disabled' = TRUE
    /\ stopBtn_disabled' = TRUE
    /\ UNCHANGED <<mediaRecorder, mediaStream, timerInterval, isPaused,
                   acquiring, started, timers, toggled>>
    /\ UNCHANGED <<inputs, chunker, summary, client, audio, ui>>

RecorderNext ==
    \/ StartClick
    \/ \E k \in 1..MaxStarts : StartResume(k)
    \/ \E k \in 1..MaxStarts : StartRejected(k)
    \/ TogglePause
    \/ StopClick

\* chat_or_complete is not being called on its own
ClientIdle ==
    /\ cc_pc = "idle"
    /\ cc_mode = "auto"
    /\ cc_chat = "text"
    /\ cc_compl = "text"
    /\ cc_result = Return(EmptyStr, <<>>)

\* build_text_from_transcription has not been called
NoBuild == [called |-> FALSE, diarization |-> FALSE, kinds |-> {}]

\* the session state that a run of the script starts from
SessionState(ts, smry, chks) ==
    [transcriptions |-> ts, summary_text |-> smry, chunk_summaries |-> chks]

\* the session defaults, lines 927-932, before any operation
PageIdle ==
    /\ uncaught = FALSE
    /\ built = NoBuild
    /\ clicks = 0
    /\ operation = "none"
    /\ before = SessionState(<<>>, EmptyStr, <<>>)
    /\ summary_source = <<>>

\* no processing button has been clicked
UiIdle ==
    /\ ui_pc = "idle"
    /\ diarization_enabled = TRUE
    /\ include_speakers = TRUE
    /\ run_summary_after = FALSE
    /\ transcriptions = <<>>
    /\ speaker_files = {}
    /\ speaker_mapping = {}
    /\ session_summary_text = EmptyStr
    /\ session_chunk_summaries = <<>>
    /\ ui_errors = <<>>
    /\ console = <<>>
    /\ failures = {}
    /\ PageIdle

\* chunk_text_by_tokens called on its own
InitChunker ==
    /\ InitArgs
    /\ mode_resume = "Resume par blocs + synthese"
    /\ api_mode_key = "auto"
    /\ InitLocals
    /\ c_pc = "encode"
    /\ gs_pc = "idle"
    /\ ClientIdle
    /\ AudioIdle
    /\ RecorderIdle
    /\ UiIdle

SpecChunker == InitChunker /\ [][ChunkNext]_vars

\* ------------- specification: the chunker, also on overlaps above the cap
\* word counts whose token sequences are a few tokens longer than a window
LongWordCounts ==
    {DecodeOverlapCap \div NPieces + MaxWords - 1, DecodeOverlapCap + MaxWords}
LongTexts == {JoinWords([k \in 1..n |-> k]) : n \in LongWordCounts}

\* windows and overlaps around the cap that the word slicing puts on overlap
InitLongArgs ==
    /\ text_for_llm \in LongTexts
    /\ chunk_size \in (DecodeOverlapCap + 1)..(DecodeOverlapCap + 2)
    /\ overlap \in (DecodeOverlapCap - 1)..(DecodeOverlapCap + 1)
    /\ InitTokenizers

InitSlices ==
    /\ InitArgs \/ InitLongArgs
    /\ mode_resume = "Resume par blocs + synthese"
    /\ api_mode_key = "auto"
    /\ InitLocals
    /\ c_pc = "encode"
    /\ gs_pc = "idle"
    /\ ClientIdle
    /\ AudioIdle
    /\ RecorderIdle
    /\ UiIdle

SpecSlices == InitSlices /\ [][ChunkNext]_vars

\* one run of generate_summary
Init ==
    /\ InitArgs
    /\ mode_resume \in Modes
    /\ api_mode_key \in ApiModes
    /\ InitLocals
    /\ c_pc = "idle"
    /\ gs_pc = "start"
    /\ ClientIdle
    /\ AudioIdle
    /\ RecorderIdle
    /\ UiIdle

Next == ChunkNext \/ GsNext

Spec == Init /\ [][Next]_vars

\* ---------------------------------------- chat_or_complete on its own
\* mode is any string; the three the sidebar offers and another one
CcModes == ApiModes \cup {"other"}

\* the two endpoints answer with texts of their own
EndpointReplies ==
    [ep \in {"chat", "completions"} |-> [reply |-> ep, i |-> 0]]

\* generate_summary and the chunker are not running
SummaryIdle ==
    /\ text_for_llm = <<>>
    /\ chunk_size = 1
    /\ overlap = 0
    /\ token_backend = "tiktoken"
    /\ mode_resume = "Resume direct (1 bloc)"
    /\ api_mode_key = "auto"
    /\ hf_tokenizer = TRUE
    /\ hf_encode_ok = TRUE
    /\ have_tiktoken = TRUE
    /\ InitLocals
    /\ c_pc = "idle"
    /\ gs_pc = "idle"

InitChat ==
    /\ SummaryIdle
    /\ cc_pc = "call"
    /\ cc_mode \in CcModes
    /\ cc_chat \in EndpointOutcomes
    /\ cc_compl \in EndpointOutcomes
    /\ cc_result = Return(EmptyStr, <<>>)
    /\ AudioIdle
    /\ RecorderIdle
    /\ UiIdle

\* one invocation of chat_or_complete, from the call to its return or raise
CcCall ==
    /\ cc_pc = "call"
    /\ cc_result' = chat_or_complete(cc_mode, cc_chat, cc_compl, EndpointReplies)
    /\ cc_pc' = "returned"
    /\ UNCHANGED <<recorder, inputs, chunker, summary, audio, ui, cc_mode, cc_chat, cc_compl>>

SpecChat == InitChat /\ [][CcCall]_vars

\* ------------------------------------------- process_audio on its own
InitAudio ==
    /\ SummaryIdle
    /\ ClientIdle
    /\ pa_pc = "call"
    /\ pa_args \in AudioArgs
    /\ pa_result = PaReturn(<<>>, <<>>, {})
    /\ RecorderIdle
    /\ UiIdle

SpecAudio == InitAudio /\ [][PaCall]_vars

\* ------- specification: generate_summary with, then without, a container
InitStatus ==
    /\ text_for_llm \in Texts
    /\ chunk_size \in 1..MaxChunkSize
    /\ overlap \in 0..MaxOverlap
    /\ overlap < chunk_size
    /\ token_backend \in Backends
    /\ hf_tokenizer = TRUE
    /\ hf_encode_ok = TRUE
    /\ have_tiktoken = TRUE
    /\ mode_resume \in Modes
    /\ api_mode_key = "auto"
    /\ InitLocals
    /\ c_pc = "idle"
    /\ gs_pc = "start"
    /\ ClientIdle
    /\ AudioIdle
    /\ RecorderIdle
    /\ UiIdle

\* the same call is made again with status_container=None, against a model
\* server that answers as it did in the run with the container
SecondRun ==
    /\ gs_pc \in {"done", "raised"}
    /\ ~first_run.made
    /\ first_run' = [made |-> TRUE, calls |-> calls, pc |-> gs_pc,
                     summary_text |-> summary_text,
                     chunk_summaries |-> chunk_summaries, error |-> gs_error]
    /\ status_container' = FALSE
    /\ status_written' = <<>>
    /\ gs_pc' = "start"
    /\ c_pc' = "idle"
    /\ ids' = <<>>
    /\ enc' = Encoded(<<>>, <<>>)
    /\ start' = 0
    /\ chunks' = <<>>
    /\ decoded' = <<>>
    /\ total_tokens' = 0
    /\ i' = 0
    /\ partial_summaries' = <<>>
    /\ chunk_summaries' = <<>>
    /\ summary_text' = EmptyStr
    /\ gs_error' = NoError
    /\ calls' = <<>>
    /\ requests' = <<>>
    /\ UNCHANGED <<recorder, inputs, client, audio, ui>>

StatusNext ==
    \/ GsNext
    \/ ChunkStart
    \/ ChunkWindow
    \/ ChunkDecode
    \/ SecondRun

SpecStatus == InitStatus /\ [][StatusNext]_vars

\* ------------------------------ specification: the browser recorder alone
InitRecorder ==
    /\ SummaryIdle
    /\ ClientIdle
    /\ AudioIdle
    /\ UiIdle
    /\ RecorderIdle

SpecRecorder == InitRecorder /\ [][RecorderNext]_vars

\* ------------------------------------------------- the processing passes
\* the timestamps, and the speaker when included, that head a line
HeaderWord(k, incl) == IF incl THEN 0 - 2 * k ELSE 1 - 2 * k

\* str(t) of an element of the list
StrOf(item) ==
    IF item.kind = "str" THEN item.txt ELSE JoinWords(<<0>>) \o item.txt

\* what lines 1200-1217 store in st.session_state.transcriptions; the
\* transcripts of the model are not strings of four characters, so that a
\* plain string does not unpack into four values
SessionItems(items, diar) ==
    IF ~diar
    THEN LET kept == SelectSeq(items, LAMBDA t : StrOf(t) # <<>>)
         IN  [k \in 1..Len(kept) |-> StrItem(StrOf(kept[k]))]
    ELSE [k \in 1..Len(items) |->
            IF items[k].kind = "tuple" THEN items[k]
            ELSE Segment(0, 0, "SPEAKER", items[k].txt)]

\* for s in unique_speakers: speaker_mapping.setdefault(s, s)
SetDefaults(mapping, items) ==
    mapping \cup { <<items[k].spk, items[k].spk>> :
                     k \in {j \in 1..Len(items) :
                               /\ items[j].kind = "tuple"
                               /\ \A m \in mapping : m[1] # items[j].spk} }

\* for start, end, spk, txt in transcriptions: a plain string does not unpack
BuildRaises(ts, diar) == diar /\ \E k \in 1..Len(ts) : ts[k].kind = "str"

RECURSIVE Concat(_)
Concat(texts) == IF texts = <<>> THEN <<>> ELSE Head(texts) \o Concat(Tail(texts))

build_text_from_transcription(ts, diar, incl) ==
    IF ts = <<>> THEN <<>>
    ELSE IF ~diar THEN Concat([k \in 1..Len(ts) |-> StrOf(ts[k])])
    ELSE Concat([k \in 1..Len(ts) |-> JoinWords(<<HeaderWord(k, incl)>>) \o ts[k].txt])

\* the widgets: chunk_size at least its minimum, overlap from 0 up to its
\* maximum, which is the minimum of chunk_size
InitPass ==
    /\ text_for_llm = <<>>
    /\ chunk_size \in 1..MaxChunkSize
    /\ overlap \in 0..MaxOverlap
    /\ overlap <= chunk_size
    /\ InitTokenizers
    /\ mode_resume \in Modes
    /\ api_mode_key \in ApiModes
    /\ InitLocals
    /\ c_pc = "idle"
    /\ gs_pc = "idle"
    /\ ClientIdle
    /\ AudioIdle
    /\ RecorderIdle
    /\ ui_pc = "ready"
    /\ diarization_enabled \in BOOLEAN
    /\ include_speakers \in BOOLEAN
    /\ run_summary_after = FALSE
    /\ transcriptions = <<>>
    /\ speaker_files = {}
    /\ speaker_mapping = {}
    /\ session_summary_text = EmptyStr
    /\ session_chunk_summaries = <<>>
    /\ ui_errors = <<>>
    /\ console = <<>>
    /\ failures = {}
    /\ PageIdle

\* the arguments and environments of process_audio, one for each way the
\* call can go: a field that the call does not come to read has one value
PassAudioArgs ==
    {a \in AudioArgs :
        /\ a.model_name = "small" /\ ~a.have_faster_whisper
        /\ ~a.exists => ~a.have_whisper
        /\ ~a.have_whisper => a.transcribe = "ok"
        /\ (~a.have_whisper \/ a.transcribe = "error") =>
              (a.transcription = <<>> /\ ~a.have_pyannote)
        /\ ~a.diarization_enabled => ~a.have_pyannote
        /\ ~a.have_pyannote => ~a.hf_token
        /\ ~a.hf_token => a.pipeline = "ok"
        /\ (~a.hf_token \/ a.pipeline = "error") => a.turns = 0}

\* faulty variant: the summary pass runs although the transcription failed
RunSummaryAfter_Always(full_process_btn, raised) == full_process_btn

\* run_summary_after = full_process_btn, and False once the pass has failed
RunSummaryAfter(full_process_btn, raised) == full_process_btn /\ ~raised

\* no call of generate_summary is in progress when a run of the script starts
NoSummaryCall ==
    /\ c_pc' = "idle"
    /\ ids' = <<>>
    /\ enc' = Encoded(<<>>, <<>>)
    /\ start' = 0
    /\ chunks' = <<>>
    /\ decoded' = <<>>
    /\ total_tokens' = 0
    /\ i' = 0
    /\ partial_summaries' = <<>>
    /\ chunk_summaries' = <<>>
    /\ summary_text' = EmptyStr
    /\ gs_error' = NoError
    /\ calls' = <<>>
    /\ requests' = <<>>
    /\ status_written' = <<>>
    /\ UNCHANGED <<status_container, first_run>>

\* an operation of the user starts a run of the page script
ScriptRun(op) ==
    /\ ui_pc = "ready"
    /\ clicks < MaxClicks
    /\ clicks' = clicks + 1
    /\ operation' = op
    /\ before' = SessionState(transcriptions, session_summary_text,
                              session_chunk_summaries)
    /\ uncaught' = FALSE
    /\ NoSummaryCall
    /\ UNCHANGED <<recorder, settings, client, pa_pc, pa_args>>

\* the record of a call build_text_from_transcription(ts, diar, ...)
BuildCall(ts, diar) ==
    [called |-> TRUE, diarization |-> diar,
     kinds |-> {ts[k].kind : k \in 1..Len(ts)}]

\* a click on one of the two processing buttons with an audio path set: the
\* transcription pass, lines 1182-1224
TranscriptionPassOf(args) ==
    /\ \E full_process_btn \in BOOLEAN, a \in args :
        /\ a.diarization_enabled = diarization_enabled
        /\ ScriptRun(IF full_process_btn THEN "full" ELSE "process")
        /\ LET r == process_audio(a)
           IN  /\ pa_result' = r
               /\ console' = r.printed
               /\ failures' = r.failed
               /\ run_summary_after' = RunSummaryAfter(full_process_btn, r.raised)
               /\ IF r.raised
                  THEN /\ ui_errors' = <<r.error>>
                       /\ UNCHANGED <<transcriptions, speaker_files, speaker_mapping>>
                  ELSE /\ transcriptions' = SessionItems(r.transcriptions, diarization_enabled)
                       /\ speaker_files' = r.speaker_files
                       /\ speaker_mapping' =
                              IF ~diarization_enabled THEN {}
                              ELSE SetDefaults(speaker_mapping, r.transcriptions)
                       /\ ui_errors' = <<>>
    /\ ui_pc' = "transcribed"
    /\ text_for_llm' = <<>>
    /\ gs_pc' = "idle"
    /\ built' = NoBuild
    /\ UNCHANGED <<toggles, session_summary_text, session_chunk_summaries,
                   summary_source>>

TranscriptionPass == ui_pc = "ready" /\ TranscriptionPassOf(PassAudioArgs)

SummaryWanted == run_summary_after /\ transcriptions # <<>>

\* the summary pass up to the call of generate_summary, lines 1226-1238
SummaryPassStart ==
    /\ ui_pc = "transcribed"
    /\ SummaryWanted
    /\ built' = BuildCall(transcriptions, diarization_enabled)
    /\ IF BuildRaises(transcriptions, diarization_enabled)
       THEN /\ ui_errors' = Append(ui_errors, [cls |-> "ValueError",
                                               mentions |-> {<<"transcriptions", "unpack">>}])
            /\ ui_pc' = "rendered"
            /\ UNCHANGED <<text_for_llm, gs_pc>>
       ELSE /\ text_for_llm' = build_text_from_transcription(
                                  transcriptions, diarization_enabled, include_speakers)
            /\ gs_pc' = "start"
            /\ ui_pc' = "summary"
            /\ UNCHANGED ui_errors
    /\ UNCHANGED <<recorder, settings, chunker, total_tokens,
                   i, partial_summaries, chunk_summaries, summary_text, gs_error,
                   calls, requests, status_container, status_written, first_run,
                   client, audio, toggles, run_summary_after,
                   session, console, failures, uncaught, clicks, operation,
                   before, summary_source>>

\* the condition of line 1226 is false: the script goes on to the display
SummaryPassSkipped ==
    /\ ui_pc = "transcribed"
    /\ ~SummaryWanted
    /\ ui_pc' = "rendered"
    /\ UNCHANGED <<recorder, inputs, chunker, summary, client, audio, toggles,
                   run_summary_after, session, ui_errors, console, failures,
                   page>>

\* generate_summary has returned or raised: lines 1255-1261 (and 1286-1291)
StoreSummary ==
    /\ gs_pc \in {"done", "raised"}
    /\ IF gs_pc = "done"
       THEN /\ session_summary_text' = summary_text
            /\ session_chunk_summaries' = chunk_summaries
            /\ summary_source' = transcriptions
            /\ UNCHANGED <<ui_errors, failures>>
       ELSE /\ ui_errors' = Append(ui_errors, gs_error)
            /\ failures' = failures \cup {m \in gs_error.mentions : m[2] # "None"}
            /\ UNCHANGED <<session_summary_text, session_chunk_summaries,
                           summary_source>>
    /\ ui_pc' = "rendered"
    /\ UNCHANGED <<recorder, inputs, chunker, summary, client, audio, toggles,
                   run_summary_after, transcriptions, speaker_files,
                   speaker_mapping, console, uncaught, built, clicks,
                   operation, before>>

SummaryPassEnd == ui_pc = "summary" /\ StoreSummary

\* with overlap >= 0 the loop condition `start < n` is never false
PassNext ==
    \/ TranscriptionPass
    \/ SummaryPassStart
    \/ SummaryPassSkipped
    \/ GsNext
    \/ ChunkStart
    \/ ChunkWindow
    \/ ChunkDecode
    \/ SummaryPassEnd

SpecPass == InitPass /\ [][PassNext]_vars

\* ---------------- specification: a session of operations on the page
\* the names a speaker can be given in the rename form
Names == {"Alice"}

\* the speakers of the stored segments
SpeakersOf(ts) == {ts[k].spk : k \in 1..Len(ts)}

\* speaker_mapping.get(sp, sp)
MappingGet(mapping, sp) ==
    IF \E m \in mapping : m[1] = sp
    THEN (CHOOSE m \in mapping : m[1] = sp)[2]
    ELSE sp

\* speaker_mapping[spk] = st.text_input(...) for each speaker of the form
MappingSet(mapping, table) ==
    {m \in mapping : m[1] \notin DOMAIN table}
        \cup {<<sp, table[sp]>> : sp \in DOMAIN table}

\* faulty variant: the renamed segments lose their start time
ApplyRename_Restart(ts, mapping) ==
    [k \in 1..Len(ts) |->
        [ts[k] EXCEPT !.spk = MappingGet(mapping, ts[k].spk), !.start = 0]]

\* mapped = [(s, e, speaker_mapping.get(sp, sp), t) for s, e, sp, t in ...]
ApplyRename(ts, mapping) ==
    [k \in 1..Len(ts) |-> [ts[k] EXCEPT !.spk = MappingGet(mapping, ts[k].spk)]]

\* is_diarized of lines 1309-1311
IsDiarized(ts) == ts # <<>> /\ ts[1].kind = "tuple"

\* the display of lines 1267-1327 at the end of a run: the transcription tab
\* builds the text with the toggle as it is now, then shows the rename form;
\* the run is over, and the page waits for the next operation
RenderPage ==
    /\ ui_pc = "rendered"
    /\ IF transcriptions = <<>>
       THEN UNCHANGED <<built, uncaught, speaker_mapping>>
       ELSE /\ built' = BuildCall(transcriptions, diarization_enabled)
            /\ uncaught' = BuildRaises(transcriptions, diarization_enabled)
            /\ speaker_mapping' =
                  IF ~uncaught' /\ IsDiarized(transcriptions)
                  THEN SetDefaults(speaker_mapping, transcriptions)
                  ELSE speaker_mapping
    /\ ui_pc' = "ready"
    /\ NoSummaryCall
    /\ text_for_llm' = <<>>
    /\ gs_pc' = "idle"
    /\ run_summary_after' = FALSE
    /\ pa_result' = PaReturn(<<>>, <<>>, {})
    /\ ui_errors' = <<>>
    /\ console' = <<>>
    /\ failures' = {}
    /\ operation' = "none"
    /\ before' = SessionState(transcriptions, session_summary_text,
                              session_chunk_summaries)
    /\ UNCHANGED <<recorder, settings, client, pa_pc, pa_args, toggles,
                   transcriptions, speaker_files, session_summary_text,
                   session_chunk_summaries, clicks, summary_source>>

\* the user flips the diarization toggle of the sidebar: the script reruns
ToggleDiarization ==
    /\ ScriptRun("toggle")
    /\ diarization_enabled' = ~diarization_enabled
    /\ ui_pc' = "rendered"
    /\ text_for_llm' = <<>>
    /\ gs_pc' = "idle"
    /\ built' = NoBuild
    /\ ui_errors' = <<>>
    /\ console' = <<>>
    /\ failures' = {}
    /\ UNCHANGED <<include_speakers, run_summary_after, session, pa_result,
                   summary_source>>

\* a click on the clean button, lines 1169-1177; cleaned is FALSE when
\* clean_temp_files raises
ClearClick ==
    /\ ScriptRun("clear")
    /\ \E cleaned \in BOOLEAN :
        IF cleaned
        THEN /\ transcriptions' = <<>>
             /\ session_summary_text' = EmptyStr
             /\ session_chunk_summaries' = <<>>
             /\ summary_source' = <<>>
             /\ ui_errors' = <<>>
        ELSE /\ ui_errors' = <<[cls |-> "Exception", mentions |-> {<<"clean", "error">>}]>>
             /\ UNCHANGED <<transcriptions, session_summary_text,
                            session_chunk_summaries, summary_source>>
    /\ ui_pc' = "rendered"
    /\ text_for_llm' = <<>>
    /\ gs_pc' = "idle"
    /\ built' = NoBuild
    /\ console' = <<>>
    /\ failures' = {}
    /\ UNCHANGED <<toggles, run_summary_after, speaker_files, speaker_mapping,
                   pa_result>>

\* a click on the regenerate button, shown next to a stored summary: lines
\* 1276-1285
RegenerateClick ==
    /\ session_summary_text # EmptyStr
    /\ ScriptRun("regen")
    /\ built' = BuildCall(transcriptions, diarization_enabled)
    /\ IF BuildRaises(transcriptions, diarization_enabled)
       THEN /\ ui_errors' = <<[cls |-> "ValueError",
                               mentions |-> {<<"transcriptions", "unpack">>}]>>
            /\ ui_pc' = "rendered"
            /\ text_for_llm' = <<>>
            /\ gs_pc' = "idle"
       ELSE /\ text_for_llm' = build_text_from_transcription(
                                  transcriptions, diarization_enabled, include_speakers)
            /\ gs_pc' = "start"
            /\ ui_pc' = "regen"
            /\ ui_errors' = <<>>
    /\ console' = <<>>
    /\ failures' = {}
    /\ UNCHANGED <<toggles, run_summary_after, session, pa_result, summary_source>>

\* the regeneration has returned or raised: lines 1286-1291
RegenerateEnd == ui_pc = "regen" /\ StoreSummary

\* the rename form is submitted with a name for each speaker: lines 1314-1322
RenameSubmit ==
    /\ IsDiarized(transcriptions)
    /\ ~uncaught
    /\ ScriptRun("rename")
    /\ \E table \in [SpeakersOf(transcriptions) -> Names \cup SpeakersOf(transcriptions)] :
        /\ speaker_mapping' = MappingSet(speaker_mapping, table)
        /\ transcriptions' = ApplyRename(transcriptions, speaker_mapping')
    /\ ui_pc' = "rendered"
    /\ text_for_llm' = <<>>
    /\ gs_pc' = "idle"
    /\ built' = NoBuild
    /\ ui_errors' = <<>>
    /\ console' = <<>>
    /\ failures' = {}
    /\ UNCHANGED <<toggles, run_summary_after, speaker_files, pa_result,
                   session_summary_text, session_chunk_summaries, summary_source>>

\* the audio files and environments of the session: the transcription
\* works or raises, the diarization works, or fails on its pipeline
SessionAudioArgs ==
    {a \in PassAudioArgs :
        /\ a.exists /\ a.have_whisper
        /\ (a.diarization_enabled /\ a.transcribe = "ok") =>
              (a.have_pyannote /\ a.hf_token)}

SessionTranscriptionPass ==
    ui_pc = "ready" /\ TranscriptionPassOf(SessionAudioArgs)

\* the settings of the session: one tokenizer, one endpoint mode, and the
\* diarization toggle as the user has set it before the first operation
InitSession ==
    /\ text_for_llm = <<>>
    /\ chunk_size = MaxChunkSize
    /\ overlap = 0
    /\ token_backend = "tiktoken"
    /\ hf_tokenizer = TRUE
    /\ hf_encode_ok = TRUE
    /\ have_tiktoken = TRUE
    /\ mode_resume = "Resume par blocs + synthese"
    /\ api_mode_key = "chat"
    /\ InitLocals
    /\ c_pc = "idle"
    /\ gs_pc = "idle"
    /\ ClientIdle
    /\ AudioIdle
    /\ RecorderIdle
    /\ ui_pc = "ready"
    /\ diarization_enabled \in BOOLEAN
    /\ include_speakers = TRUE
    /\ run_summary_after = FALSE
    /\ transcriptions = <<>>
    /\ speaker_files = {}
    /\ speaker_mapping = {}
    /\ session_summary_text = EmptyStr
    /\ session_chunk_summaries = <<>>
    /\ ui_errors = <<>>
    /\ console = <<>>
    /\ failures = {}
    /\ PageIdle

SessionNext ==
    \/ SessionTranscriptionPass
    \/ SummaryPassStart
    \/ SummaryPassSkipped
    \/ GsNext
    \/ ChunkStart
    \/ ChunkWindow
    \/ ChunkDecode
    \/ SummaryPassEnd
    \/ RenderPage
    \/ ToggleDiarization
    \/ ClearClick
    \/ RegenerateClick
    \/ RegenerateEnd
    \/ RenameSubmit

SpecSession == InitSession /\ [][SessionNext]_vars

\* ----------------------------------------------------------------- claims
Last(s) == s[Len(s)]
Range(s) == {s[k] : k \in DOMAIN s}
TokenCount == Len(encode_tokens(text_for_llm, token_backend))
WindowIndices(c) == c.start..(c.end - 1)

UsedDirect ==
    gs_pc = "direct" \/ \E k \in 1..Len(calls) : calls[k].prompt.kind = "direct"
UsedChunked ==
    \/ c_pc # "idle"
    \/ gs_pc \in {"chunking", "loop"}
    \/ \E k \in 1..Len(calls) : calls[k].prompt.kind \in {"chunk", "synth"}

\* C1 (as claimed): with max_tokens >= 1 and overlap >= max_tokens the window
\* start advances by at least one token at every iteration of the loop, so
\* the loop emits no more windows than there are tokens and terminates.
C1_WindowStartAdvances ==
    (chunk_size >= 1 /\ overlap >= chunk_size) =>
        /\ \A k \in 1..(Len(chunks) - 1) : chunks[k + 1].start > chunks[k].start
        /\ (c_pc = "loop" /\ chunks # <<>>) => start > Last(chunks).start
        /\ Len(chunks) <= Len(ids)

\* C2 (as claimed): with max_tokens <= 0 and a non-empty text the chunker
\* fails before its loop: it emits no window and it does not return.
C2_NonPositiveMaxTokensRejected ==
    (chunk_size <= 0 /\ text_for_llm # <<>>) =>
        /\ chunks = <<>>
        /\ c_pc \notin {"decode", "return"}

\* C3: generate_summary takes the direct strategy exactly when the selection
\* mode is direct or the token count is <= chunk_size, the chunked strategy
\* exactly otherwise, and so never both in one run.
C3_StrategyChoice ==
    gs_pc # "start" =>
        LET direct == \/ mode_resume = "Resume direct (1 bloc)"
                      \/ TokenCount <= chunk_size
        IN  /\ UsedDirect <=> direct
            /\ UsedChunked <=> ~direct
            /\ ~(UsedDirect /\ UsedChunked)

\* a direct selection has won over a token count above chunk_size
C3_Witness ==
    /\ gs_pc = "done"
    /\ mode_resume = "Resume direct (1 bloc)"
    /\ chunk_size >= 1
    /\ TokenCount > chunk_size
    /\ UsedDirect

\* C4: when the token count is <= chunk_size, generate_summary makes exactly
\* one chat_or_complete call, its prompt holds the full text, the chunker and
\* the synthesis are never invoked, and the partial summaries returned are
\* empty.
C4_DirectSingleCall ==
    TokenCount <= chunk_size =>
        /\ c_pc = "idle"
        /\ Len(calls) <= 1
        /\ \A k \in 1..Len(calls) :
              /\ calls[k].prompt.kind = "direct"
              /\ calls[k].prompt.text = text_for_llm
        /\ gs_pc \in {"done", "raised"} => Len(calls) = 1
        /\ gs_pc = "done" => chunk_summaries = <<>>

\* the chunked mode is selected, and a non-empty text fits in one chunk
C4_Witness ==
    /\ gs_pc = "done"
    /\ mode_resume = "Resume par blocs + synthese"
    /\ text_for_llm # <<>>
    /\ TokenCount <= chunk_size
    /\ Len(calls) = 1
    /\ summary_text # EmptyStr

\* C5: in the chunked strategy the calls are chunk 1, chunk 2, ... in
\* increasing order, each made after all earlier ones returned; the synthesis
\* call is the (N+1)-th, made after the N chunk calls returned; a run that
\* returns made exactly N+1 calls and final_summary is the synthesis output.
C5_ChunkedCallOrder ==
    /\ \A k \in 1..Len(calls) :
          /\ calls[k].prompt.kind = "chunk" =>
                /\ calls[k].prompt.i = k
                /\ k <= Len(decoded)
          /\ calls[k].prompt.kind = "synth" => k = Len(decoded) + 1
          /\ calls[k].prompt.kind \in {"chunk", "synth"} =>
                \A j \in 1..(k - 1) :
                    calls[j].ok /\ calls[j].prompt.kind = "chunk"
    /\ (gs_pc = "done" /\ UsedChunked) =>
          /\ Len(calls) = Len(decoded) + 1
          /\ Last(calls).prompt.kind = "synth"
          /\ summary_text = Last(calls).result

\* a run over three chunks or more has returned
C5_Witness ==
    /\ gs_pc = "done"
    /\ Len(decoded) >= 3
    /\ Len(calls) = Len(decoded) + 1
    /\ summary_text = [reply |-> "synth", i |-> 0]

\* C6: when the call for chunk k fails it is the last call of the run: no
\* call for a later chunk, no synthesis call, and no final summary.
C6_ChunkFailureAborts ==
    \A k \in 1..Len(calls) :
        (calls[k].prompt.kind = "chunk" /\ ~calls[k].ok) =>
            /\ k = Len(calls)
            /\ gs_pc = "raised"
            /\ summary_text = EmptyStr
            /\ chunk_summaries = <<>>

\* the call for a chunk that is neither the first nor the last has failed
C6_Witness ==
    /\ gs_pc = "raised"
    /\ Len(calls) >= 2
    /\ Len(calls) < Len(decoded)
    /\ Last(calls).prompt.kind = "chunk"
    /\ ~Last(calls).ok

\* C7 (as claimed): when the call for chunk k fails, the error that
\* generate_summary raises names the chunk k.
C7_ErrorNamesChunk ==
    (gs_pc = "raised" /\ calls # <<>> /\ Last(calls).prompt.kind = "chunk") =>
        <<"bloc", ToString(Last(calls).prompt.i)>> \in gs_error.mentions

\* C8: a chunked run that returns gives N partial summaries, the i-th one
\* made of the output of the call for chunk i, and the synthesis prompt
\* embeds the N partial summaries in index order.
C8_PartialSummariesInOrder ==
    (gs_pc = "done" /\ UsedChunked) =>
        /\ Len(chunk_summaries) = Len(decoded)
        /\ \A k \in 1..Len(decoded) :
              /\ calls[k].prompt = ChunkPrompt(k, Len(decoded), decoded[k])
              /\ chunk_summaries[k] = [bloc |-> k, smry |-> calls[k].result]
        /\ Last(calls).prompt.joined = chunk_summaries

\* a run over two chunks or more has returned with its partial summaries
C8_Witness ==
    /\ gs_pc = "done"
    /\ Len(chunk_summaries) >= 2
    /\ chunk_summaries[1].smry # chunk_summaries[2].smry
    /\ Last(calls).prompt.kind = "synth"

\* C9: with max_tokens >= 1, whatever the overlap, every window emitted is
\* the slice [start, end) of the token sequence, 1 <= end - start <= max_tokens.
C9_WindowBounds ==
    chunk_size >= 1 =>
        \A k \in 1..Len(chunks) :
            /\ 0 <= chunks[k].start
            /\ chunks[k].end <= Len(ids)
            /\ 1 <= chunks[k].end - chunks[k].start
            /\ chunks[k].end - chunks[k].start <= chunk_size
            /\ chunks[k].toks = SubSeq(ids, chunks[k].start + 1, chunks[k].end)

\* the chunker returned several windows, the last one cut short by the end
C9_Witness ==
    /\ c_pc = "return"
    /\ chunk_size >= 2
    /\ Len(chunks) >= 2
    /\ Last(chunks).end = Len(ids)
    /\ Last(chunks).end - Last(chunks).start < chunk_size

\* C10: with 0 <= overlap < max_tokens and more than max_tokens tokens, each
\* window starts at the previous window's end minus overlap, and the two
\* share exactly overlap tokens.
C10_ConsecutiveOverlap ==
    (0 <= overlap /\ overlap < chunk_size /\ Len(ids) > chunk_size) =>
        \A k \in 1..(Len(chunks) - 1) :
            /\ chunks[k + 1].start = chunks[k].end - overlap
            /\ Cardinality(WindowIndices(chunks[k]) \cap WindowIndices(chunks[k + 1]))
                 = overlap

\* three windows or more with a positive overlap, the last pair included
C10_Witness ==
    /\ c_pc = "return"
    /\ overlap >= 1
    /\ overlap < chunk_size
    /\ Len(chunks) >= 3

CeilDiv(a, b) == (a + b - 1) \div b
BoundsOf(cs) == [k \in 1..Len(cs) |-> [start |-> cs[k].start, end |-> cs[k].end]]

\* C11: with 0 <= overlap < max_tokens and T > max_tokens tokens, window k
\* (0-based) is [k*(max_tokens-overlap), min(k*(max_tokens-overlap)+max_tokens, T)),
\* there are ceil((T-overlap)/(max_tokens-overlap)) windows, and a run of
\* generate_summary that returns made that many chunk calls and one synthesis
\* call; for T=14000, max_tokens=6000, overlap=200 the windows are [0,6000),
\* [5800,11800), [11600,14000).
C11_WindowCount ==
    /\ (0 <= overlap /\ overlap < chunk_size /\ Len(ids) > chunk_size) =>
          LET step == chunk_size - overlap
              T == Len(ids)
          IN  /\ \A k \in 1..Len(chunks) :
                    /\ chunks[k].start = (k - 1) * step
                    /\ chunks[k].end = Min((k - 1) * step + chunk_size, T)
              /\ c_pc \in {"decode", "return"} =>
                    /\ Len(chunks) = CeilDiv(T - overlap, step)
                    /\ BoundsOf(chunks) = WindowBounds(T, chunk_size, overlap, 0, MaxIter)
              /\ gs_pc = "done" => Len(calls) = CeilDiv(T - overlap, step) + 1
    /\ WindowBounds(14000, 6000, 200, 0, MaxIter)
         = << [start |-> 0, end |-> 6000], [start |-> 5800, end |-> 11800],
              [start |-> 11600, end |-> 14000] >>

\* the same shape at the model's scale: 6 tokens, max_tokens 3, overlap 1,
\* three windows, three chunk calls and the synthesis call
C11_Witness ==
    /\ gs_pc = "done"
    /\ Len(ids) = 6
    /\ chunk_size = 3
    /\ overlap = 1
    /\ BoundsOf(chunks) = << [start |-> 0, end |-> 3], [start |-> 2, end |-> 5],
                             [start |-> 4, end |-> 6] >>
    /\ Len(calls) = 4

Requested(ep) == \E k \in 1..Len(cc_result.requests) : cc_result.requests[k].ep = ep
ChatFailed == cc_chat \in {"http", "error"}
ComplFailed == cc_compl \in {"http", "error"}

C13_BothFailAggregated ==
    (cc_pc = "returned" /\ cc_mode = "auto" /\ ChatFailed /\ ComplFailed) =>
        /\ ~cc_result.ok
        /\ cc_result.error.cls = "ValueError"
        /\ <<"chat", cc_chat>> \in cc_result.error.mentions
        /\ <<"completions", cc_compl>> \in cc_result.error.mentions

C13_Witness ==
    /\ cc_pc = "returned"
    /\ cc_mode = "auto"
    /\ cc_chat = "error"
    /\ cc_compl = "http"
    /\ ~cc_result.ok

\* the order and the form of the requests of one invocation, common to the
\* claim and to its amendment
RequestOrder ==
    /\ cc_mode = "auto" =>
          /\ cc_result.requests # <<>>
          /\ cc_result.requests[1] = ChatRequest
          /\ \A k \in 2..Len(cc_result.requests) :
                cc_result.requests[k] = CompletionsRequest
    /\ \A k \in 1..Len(cc_result.requests) :
          cc_result.requests[k].ep = "completions" =>
              cc_result.requests[k].prompt = "merged"
    /\ cc_mode = "chat" => ~Requested("completions")
    /\ cc_mode = "completions" => ~Requested("chat")

\* C14 (as claimed): in auto mode the chat endpoint is requested first and
\* the completions endpoint only after the chat attempt failed, with the
\* merged prompt, never when the chat attempt returned a result; in chat
\* mode the completions endpoint is never requested, in completions mode
\* the chat endpoint is never requested.
C14_CompletionsOnlyAfterFailure ==
    cc_pc = "returned" =>
        /\ RequestOrder
        /\ (cc_mode = "auto" /\ Requested("completions")) => ChatFailed
        /\ (cc_mode = "auto" /\ ~ChatFailed) => ~Requested("completions")

\* C14 (amended): as claimed, except that in auto mode the completions
\* endpoint is requested exactly when the chat attempt failed or returned an
\* empty text, and never when it returned a non-empty text.
C14_CompletionsAfterFailureOrEmpty ==
    cc_pc = "returned" =>
        /\ RequestOrder
        /\ cc_mode = "auto" =>
              (Requested("completions") <=> (ChatFailed \/ cc_chat = "empty"))
        /\ (cc_mode = "auto" /\ cc_chat = "text") =>
              cc_result.requests = <<ChatRequest>>

\* auto mode, the chat endpoint answers with an empty text and the
\* completions endpoint is requested next
C14_Witness ==
    /\ cc_pc = "returned"
    /\ cc_mode = "auto"
    /\ cc_chat = "empty"
    /\ cc_result.requests = <<ChatRequest, CompletionsRequest>>

\* C15: generate_summary never retries: no two chat_or_complete invocations
\* are for the same chunk, for the synthesis or for the direct summary, an
\* invocation requests each endpoint at most once, and an error raised by
\* chat_or_complete ends the run at once as the run's own error, unchanged.
C15_NoRetry ==
    /\ \A j, k \in 1..Len(calls) :
          (j < k) => \/ calls[j].prompt.kind # calls[k].prompt.kind
                     \/ calls[j].prompt.i # calls[k].prompt.i
    /\ \A j, k \in 1..Len(requests) : (j < k) => requests[j].ep # requests[k].ep
    /\ \A k \in 1..Len(calls) :
          ~calls[k].ok => /\ k = Len(calls)
                          /\ gs_pc = "raised"
                          /\ gs_error = calls[k].error
    /\ gs_pc = "raised" => (calls # <<>> /\ ~Last(calls).ok)

\* the second chunk call failed on both endpoints, after a first one served
C15_Witness ==
    /\ gs_pc = "raised"
    /\ Len(calls) = 2
    /\ calls[1].ok
    /\ requests = <<ChatRequest, CompletionsRequest>>
    /\ gs_error.cls = "ValueError"
    /\ Cardinality(gs_error.mentions) = 2

\* C16 (as claimed): whatever backend is requested and whatever fails
\* (tokenizer load, encode, missing library), the windows the chunker returns
\* were decoded by the backend that encoded their tokens: no token of one
\* backend is decoded by another backend or by another method.
C16_DecodeWithEncodingBackend ==
    (c_pc = "return" /\ chunks # <<>> /\ 0 <= overlap /\ overlap < chunk_size) =>
        \A k \in 1..Len(chunks) : \A t \in 1..Len(chunks[k].toks) :
            chunks[k].toks[t].b = DecodeMethod(token_backend)

TriedOrders ==
    { <<"HuggingFace">>, <<"HuggingFace", "tiktoken">>,
      <<"HuggingFace", "tiktoken", "split">>,
      <<"tiktoken">>, <<"tiktoken", "split">> }

\* C17: encode_tokens never raises: for every text and every combination of
\* failures it returns a sequence, trying the HuggingFace tokenizer (when it
\* is the requested backend), then tiktoken, then the split into words, each
\* only after the one before failed; an empty text gives the empty sequence
\* and no backend is tried.
C17_EncodeNeverRaises ==
    c_pc # "encode" =>
        /\ ~enc.raised
        /\ c_pc # "raised"
        /\ ids = enc.ids
        /\ text_for_llm = <<>> => (enc.ids = <<>> /\ enc.tried = <<>>)
        /\ text_for_llm # <<>> =>
              /\ enc.tried \in TriedOrders
              /\ (enc.tried[1] = "HuggingFace") <=> (token_backend = "HuggingFace")
              /\ enc.ids # <<>>
              /\ \A k \in 1..Len(enc.ids) : enc.ids[k].b = Last(enc.tried)
              /\ ("tiktoken" \in Range(enc.tried) /\ token_backend = "HuggingFace")
                    => ~(hf_tokenizer /\ hf_encode_ok)
              /\ "split" \in Range(enc.tried) => ~have_tiktoken

\* the tokenizer loads, its encode raises, tiktoken is missing: the words
C17_Witness ==
    /\ c_pc = "return"
    /\ text_for_llm # <<>>
    /\ hf_tokenizer
    /\ ~hf_encode_ok
    /\ enc.tried = <<"HuggingFace", "tiktoken", "split">>
    /\ Len(enc.ids) = Len(WordsOf(text_for_llm))

WordsIn(text) == {text[k].w : k \in 1..Len(text)}
WordsTouched(c) == {c.toks[t].w : t \in 1..Len(c.toks)}

\* C18 (as claimed): the prompt of the i-th chunk call states i and the
\* number N of chunks and embeds the text of chunk i only: no word from
\* outside the i-th window, and not the whole transcript.
C18_ChunkPromptOwnText ==
    (chunk_size >= 1 /\ 0 <= overlap /\ overlap < chunk_size) =>
        \A k \in 1..Len(calls) :
            calls[k].prompt.kind = "chunk" =>
                /\ calls[k].prompt.i = k
                /\ calls[k].prompt.n = Len(chunks)
                /\ calls[k].prompt.text = decoded[k]
                /\ WordsIn(calls[k].prompt.text) \subseteq WordsTouched(chunks[k])
                /\ calls[k].prompt.text # text_for_llm

DiarizationAttempted ==
    /\ pa_args.exists
    /\ Engine(pa_args.model_name, pa_args.have_faster_whisper, pa_args.have_whisper) # "none"
    /\ pa_args.transcribe = "ok"
    /\ pa_args.diarization_enabled
    /\ pa_args.have_pyannote
DiarizationFails == ~pa_args.hf_token \/ pa_args.pipeline = "error"
Returned(r) == <<r.raised, r.transcriptions, r.speaker_files>>

\* C20: when the diarization is requested and fails (no HF_TOKEN, or the
\* pipeline raises), process_audio does not fail: it returns the plain
\* transcript as a one-element list with an empty speaker-file mapping, the
\* value it returns when the diarization is disabled or pyannote is missing.
C20_DiarizationFailureDegrades ==
    (pa_pc = "returned" /\ DiarizationAttempted /\ DiarizationFails) =>
        /\ pa_result.failed # {}
        /\ \A f \in pa_result.failed : f[1] = "diarization"
        /\ ~pa_result.raised
        /\ pa_result.transcriptions = <<StrItem(pa_args.transcription)>>
        /\ pa_result.speaker_files = {}
        /\ Returned(pa_result)
             = Returned(process_audio([pa_args EXCEPT !.diarization_enabled = FALSE]))
        /\ Returned(pa_result)
             = Returned(process_audio([pa_args EXCEPT !.have_pyannote = FALSE]))

\* the pipeline raised on a one-word transcript, with the token set
C20_Witness ==
    /\ pa_pc = "returned"
    /\ DiarizationAttempted
    /\ pa_args.hf_token
    /\ pa_args.pipeline = "error"
    /\ pa_args.transcription # <<>>
    /\ pa_result.printed = << {<<"diarization", "pipeline">>} >>

\* C19 (as claimed): when a processing pass is over, every failure of one of
\* its external steps (transcription, diarization, chat/completion) is in a
\* message st.error has shown.
C19_FailuresSurfaced ==
    ui_pc = "rendered" =>
        \A f \in failures : \E k \in 1..Len(ui_errors) : f \in ui_errors[k].mentions

\* C24 (as claimed): whatever the mode, the failures and the empty responses,
\* a chat_or_complete that returns without raising returns the non-empty
\* text of an endpoint it requested, never the empty string.
C24_NeverReturnsEmpty ==
    (cc_pc = "returned" /\ cc_result.ok) =>
        /\ cc_result.value # EmptyStr
        /\ \E k \in 1..Len(cc_result.requests) :
              cc_result.value = EndpointReplies[cc_result.requests[k].ep]

\* C25 (as claimed): on the word-slicing decode path, for a text of at least
\* one word and 0 <= overlap < max_tokens, every chunk text the chunker
\* returns holds at least one word.
C25_NoEmptySlice ==
    ( /\ c_pc = "return"
      /\ DecodeMethod(token_backend) = "split"
      /\ WordsOf(text_for_llm) # <<>>
      /\ 0 <= overlap /\ overlap < chunk_size ) =>
        \A k \in 1..Len(decoded) : WordsOf(decoded[k]) # <<>>

\* C27: for 0 <= overlap < max_tokens and n >= 1 tokens, the windows cover
\* the token sequence without a gap: the first starts at 0, each next one
\* starts at or before the end of the one before, and the last ends at n.
C27_WindowsCoverTokens ==
    (0 <= overlap /\ overlap < chunk_size /\ ids # <<>>) =>
        /\ chunks # <<>> => chunks[1].start = 0
        /\ \A k \in 1..(Len(chunks) - 1) :
              /\ chunks[k + 1].start <= chunks[k].end
              /\ chunks[k + 1].start > chunks[k].start
        /\ c_pc \in {"decode", "return"} =>
              /\ chunks # <<>>
              /\ Last(chunks).end = Len(ids)
              /\ \A t \in 0..(Len(ids) - 1) :
                    \E k \in 1..Len(chunks) : t \in WindowIndices(chunks[k])

\* six tokens, windows of two tokens overlapping by one: five windows
C27_Witness ==
    /\ c_pc = "return"
    /\ Len(ids) = 6
    /\ chunk_size = 2
    /\ overlap = 1
    /\ Len(chunks) = 5
    /\ Last(chunks).end = 6

\* the recording sessions in progress: the startRecording calls waiting on
\* the microphone and the recorders that are recording or paused
RecordingSessions ==
    acquiring \cup {k \in 1..MaxStarts : recorder_state[k] \in {"recording", "paused"}}

\* C30 (as claimed): at most one recording session (stream, MediaRecorder
\* and timer interval) is active at any time; no second startRecording
\* begins while a first one is still starting or recording.
C30_OneRecordingSession ==
    /\ Cardinality(RecordingSessions) <= 1
    /\ Cardinality(streams) <= 1
    /\ Cardinality(intervals) <= 1

\* the words of the k-th returned chunk, as positions in text.split()
SliceOf(k) == WordsIn(decoded[k])

\* C26: on the word-slicing decode path, for 0 <= overlap < max_tokens and
\* at least as many tokens as words, consecutive word slices leave no gap
\* and every word of the text is in at least one returned chunk.
C26_SlicesCoverWords ==
    ( /\ c_pc = "return"
      /\ DecodeMethod(token_backend) = "split"
      /\ 0 <= overlap /\ overlap < chunk_size
      /\ Len(ids) >= Len(WordsOf(text_for_llm)) ) =>
        /\ \A w \in WordsIn(text_for_llm) :
              \E k \in 1..Len(decoded) : w \in SliceOf(k)
        /\ \A k \in 1..(Len(decoded) - 1) :
              SliceOf(k + 1) # {} =>
                  \E a \in SliceOf(k) : \E b \in SliceOf(k + 1) : b <= a + 1

\* an overlap above the cap of the word slicing: the second slice starts
\* further on than the second token window, and the words are still covered
C26_Witness ==
    /\ c_pc = "return"
    /\ DecodeMethod(token_backend) = "split"
    /\ overlap > DecodeOverlapCap
    /\ overlap < chunk_size
    /\ Len(decoded) >= 2
    /\ Len(ids) = Len(WordsOf(text_for_llm))
    /\ chunks[2].start + 1 \notin SliceOf(2)
    /\ Len(ids) \in SliceOf(2)

\* C22: run with a status container and then with none, on the same inputs
\* and against a server that answers the same, generate_summary issues the
\* same sequence of calls with the same prompts and ends the same way.
C22_StatusContainerNoControlFlow ==
    first_run.made =>
        /\ status_written = <<>>
        /\ Len(calls) <= Len(first_run.calls)
        /\ \A k \in 1..Len(calls) : calls[k] = first_run.calls[k]
        /\ gs_pc \in {"done", "raised"} =>
              /\ calls = first_run.calls
              /\ gs_pc = first_run.pc
              /\ gs_pc = "done" =>
                    /\ summary_text = first_run.summary_text
                    /\ chunk_summaries = first_run.chunk_summaries
              /\ gs_pc = "raised" => gs_error = first_run.error

\* a chunked run of two chunks and a synthesis, made again without container
C22_Witness ==
    /\ first_run.made
    /\ ~status_container
    /\ gs_pc = "done"
    /\ Len(calls) = 3
    /\ calls[3].prompt.kind = "synth"
    /\ summary_text # EmptyStr

\* the script has run up to the display after the operation op
RunOf(op) == ui_pc = "rendered" /\ operation = op

\* C21: applying the rename table changes only speaker labels: the number
\* and order of the segments and each segment's start, end and text are
\* unchanged, and a speaker absent from the table keeps its label.
C21_RenameOnlyLabels ==
    RunOf("rename") =>
        /\ Len(transcriptions) = Len(before.transcriptions)
        /\ \A k \in 1..Len(transcriptions) :
              LET new == transcriptions[k]
                  old == before.transcriptions[k]
              IN  /\ new.kind = old.kind
                  /\ new.start = old.start
                  /\ new.end = old.end
                  /\ new.txt = old.txt
                  /\ new.spk = MappingGet(speaker_mapping, old.spk)
                  /\ (\A m \in speaker_mapping : m[1] # old.spk) => new.spk = old.spk
        /\ session_summary_text = before.summary_text
        /\ session_chunk_summaries = before.chunk_summaries

\* two segments of two speakers, one of them renamed and the other kept
C21_Witness ==
    /\ RunOf("rename")
    /\ Len(transcriptions) = 2
    /\ before.transcriptions[1].spk = "SPEAKER_00"
    /\ transcriptions[1].spk = "Alice"
    /\ transcriptions[2].spk = "SPEAKER_01"
    /\ transcriptions[2].start = 1

\* C23 (as claimed): between operations, a non-empty stored summary was
\* generated from the transcriptions that are stored now.
C23_SummaryOfStoredTranscriptions ==
    (ui_pc = "ready" /\ session_summary_text # EmptyStr) =>
        summary_source = transcriptions

\* C28 (as claimed): build_text_from_transcription is only called with a
\* diarization flag that matches the stored items (4-tuples exactly when the
\* flag is true), and its unpacking never fails.
C28_BuildFlagMatchesItems ==
    built.called =>
        /\ built.kinds \subseteq {IF built.diarization THEN "tuple" ELSE "str"}
        /\ ~uncaught

\* a transcribe + summarize click whose process_audio raised
FullPassFailed ==
    /\ operation = "full"
    /\ ui_pc \in {"transcribed", "summary", "rendered"}
    /\ pa_result.raised

\* C29: if process_audio raises during a transcribe + summarize pass, no
\* summarization call is made in the pass and the stored transcriptions,
\* summary and chunk summaries are those from before the pass; if
\* generate_summary raises, the stored summary and chunk summaries are those
\* from before.
C29_FailedPassKeepsSession ==
    /\ FullPassFailed =>
          /\ calls = <<>>
          /\ gs_pc = "idle"
          /\ ~built.called
          /\ transcriptions = before.transcriptions
          /\ session_summary_text = before.summary_text
          /\ session_chunk_summaries = before.chunk_summaries
    /\ (ui_pc = "rendered" /\ gs_pc = "raised") =>
          /\ session_summary_text = before.summary_text
          /\ session_chunk_summaries = before.chunk_summaries

\* a failed transcribe + summarize pass over a session that holds a
\* transcription and its summary
C29_Witness ==
    /\ FullPassFailed
    /\ ui_pc = "rendered"
    /\ transcriptions # <<>>
    /\ session_summary_text # EmptyStr
    /\ session_chunk_summaries # <<>>
====
